---- MODULE Spec2Model ----
(***************************************************************************)
(* Model of tolvera.mp.face_mesh.MPFaceMesh: the adapter that runs the     *)
(* MediaPipe face_mesh solution on video frames through a periodic         *)
(* Updater, caches the landmarks in a numpy dict, copies them to the       *)
(* shared state ctx.s.face_mesh, and draws landmark circles and contour    *)
(* lines from that shared state.                                           *)
(*                                                                         *)
(* Numbers.  A coordinate is an integer counting units of 1/Den            *)
(* (Den = 2^25).  Every value the model feeds in is a float32 (the         *)
(* landmark fields of the detector are 32-bit floats), and for these       *)
(* inputs the float64 expressions 1-lm.x and ctx.x*(1-lm.x) are exact, so  *)
(* the only rounding is the store into the np.float32 arrays, which F32    *)
(* computes (24 significant bits, ties to even).                           *)
(***************************************************************************)
EXTENDS Integers, Sequences, FiniteSets, TLC

VARIABLES
  config,        \* self.config
  ctx,           \* self.ctx.x, self.ctx.y
  conns,         \* the ten FaceMeshConnection fields of setup_connections
  face_mesh_np,  \* self.face_mesh_np  {'pxnorm', 'px'}
  s_face_mesh,   \* self.ctx.s.face_mesh (shared state store)
  detected,      \* self.detected[None]
  results,       \* self.results: <<>> while unset, else <<multi_face_landmarks>>
  updater,       \* self.updater (count_rate, counter)
  circles,       \* self.px.circle calls issued by the last operation
  lines,         \* self.px.line calls issued by the last operation
  idx,           \* indices the last operation used, per indexed structure
  last,          \* the last operation: name, frame is None, detect / process ran
  lastFrame,     \* frame of the last detect pass that reached the detector
  wrote,         \* store and detected-count as the last such pass left them
  callLog        \* for the last count_rate __call__s: did detect execute

vars == <<config, ctx, conns, face_mesh_np, s_face_mesh, detected, results,
          updater, circles, lines, idx, last, lastFrame, wrote, callLog>>

-----------------------------------------------------------------------------
(* Bounds of the model *)

MaxFacesBound == 2   \* max_faces is drawn from 1..MaxFacesBound
NPointsBound == 3    \* landmarks per face in the model (478 in the source)
MaxRate == 2         \* face_detect_rate is 1 (every call) or MaxRate
NumVariants == 1     \* distinct frames per number of visible faces

(* Fixed point unit and float32 precision *)
Den == 2^25
F32Mant == 24

\* the frame argument None (no frame)
None == [k |-> 0, v |-> 0]

n_points == NPointsBound

-----------------------------------------------------------------------------
(* Numeric helpers *)

Abs(v) == IF v < 0 THEN -v ELSE v

Min(a, b) == IF a < b THEN a ELSE b

RECURSIVE Pow2Floor(_)
\* largest power of two <= v, for v >= 1
Pow2Floor(v) == IF v < 2 THEN 1 ELSE 2 * Pow2Floor(v \div 2)

\* spacing of float32 values around magnitude m (m in units of 1/Den)
Ulp(m) ==
  LET top == Pow2Floor(m)
      q   == top \div (2^(F32Mant - 1))
  IN IF q < 1 THEN 1 ELSE q

\* conversion of an exact value to np.float32: round to nearest, ties to even
F32(v) ==
  IF v = 0 THEN 0
  ELSE LET m   == Abs(v)
           u   == Ulp(m)
           q   == m \div u
           r   == m % u
           up  == (2 * r > u) \/ (2 * r = u /\ q % 2 = 1)
           res == (IF up THEN q + 1 ELSE q) * u
       IN IF v < 0 THEN -res ELSE res

\* ti.cast(value, ti.i32): truncation toward zero
CastI32(v) == IF v >= 0 THEN v \div Den ELSE -((-v) \div Den)

-----------------------------------------------------------------------------
(* The external collaborators *)

\* values a landmark coordinate takes: 0.25, 0.5, 0.25 + 2^-25, 1.25
LmVals == << Den \div 4, Den \div 2, (Den \div 4) + 1, Den + (Den \div 4) >>

LmVal(k) == LmVals[(k % Len(LmVals)) + 1]

\* a frame shows k faces; v tells frames with the same number of faces apart
Frames == [k : 0..MaxFacesBound, v : 1..NumVariants]

FacesIn(frame) == IF frame = None THEN 0 ELSE frame.k

\* the landmark the detector reports for face i, landmark j of a frame;
\* frames that differ in k or v differ in every face they show
Landmark(frame, i, j) ==
  [x |-> LmVal(frame.v + frame.k + i + j),
   y |-> LmVal(frame.v + 2 * frame.k + 2 * i + j),
   z |-> LmVal(2 * frame.v + frame.k + i + j)]

\* self.face_mesh.process(frame).multi_face_landmarks: a deterministic
\* function of the frame, at most max_num_faces faces of n_points landmarks
Process(frame) ==
  LET k == Min(FacesIn(frame), config.max_num_faces)
  IN [i \in 1..k |-> [j \in 1..n_points |-> Landmark(frame, i - 1, j - 1)]]

\* the vendor topology: per named group a list of landmark-index pairs
Chain(n) == [i \in 1..n |-> <<i - 1, i>>]

ContourLens == {n \in {n_points - 2, n_points - 1} : n >= 1}

FACEMESH(len) ==
  [LIPS |-> Chain(1), LEFT_EYE |-> Chain(1), LEFT_IRIS |-> Chain(1),
   LEFT_EYEBROW |-> Chain(1), RIGHT_EYE |-> Chain(1),
   RIGHT_EYEBROW |-> Chain(1), RIGHT_IRIS |-> Chain(1),
   FACE_OVAL |-> Chain(1), NOSE |-> Chain(1), CONTOURS |-> Chain(len)]

\* State.fill(0.) / the zero-initialised arrays
Zeros(mf) ==
  [pxnorm |-> [i \in 0..(mf - 1) |-> [j \in 0..(n_points - 1) |-> <<0, 0, 0>>]],
   px     |-> [i \in 0..(mf - 1) |-> [j \in 0..(n_points - 1) |-> <<0, 0>>]]]

\* State.set_from_nddict(d): bulk assignment of both arrays
SetFromNddict(d) == [pxnorm |-> d.pxnorm, px |-> d.px]

\* Updater.__call__: the wrapped function runs when the counter reaches
\* count_rate, and the counter restarts
UpdaterFires(u) == u.counter + 1 >= u.count_rate

UpdaterNext(u) ==
  [u EXCEPT !.counter = IF UpdaterFires(u) THEN 0 ELSE u.counter + 1]

-----------------------------------------------------------------------------
(* Construction *)

FaceMeshConnection(p) == [a |-> p[1], b |-> p[2]]

ConnField(table) == [i \in 1..Len(table) |-> FaceMeshConnection(table[i])]

setup_connections(topology) ==
  [lips_conns          |-> ConnField(topology.LIPS),
   left_eye_conns      |-> ConnField(topology.LEFT_EYE),
   left_iris_conns     |-> ConnField(topology.LEFT_IRIS),
   left_eyebrow_conns  |-> ConnField(topology.LEFT_EYEBROW),
   right_eye_conns     |-> ConnField(topology.RIGHT_EYE),
   right_eyebrow_conns |-> ConnField(topology.RIGHT_EYEBROW),
   right_iris_conns    |-> ConnField(topology.RIGHT_IRIS),
   face_oval_conns     |-> ConnField(topology.FACE_OVAL),
   nose_conns          |-> ConnField(topology.NOSE),
   contours_conns      |-> ConnField(topology.CONTOURS)]

n_conns == Len(conns.contours_conns)

\* sizes of the drawing context (ctx.x, ctx.y)
CtxSizes == {[x |-> 3, y |-> 5]}

NoIdx == [face |-> {}, lm |-> {}, conn |-> {}]

Init ==
  \E mf \in 1..MaxFacesBound, rate \in {1, MaxRate}, size \in CtxSizes,
     len \in ContourLens :
    /\ config = [static_image_mode |-> FALSE, max_num_faces |-> mf,
                 refine_landmarks |-> FALSE,
                 min_detection_confidence |-> Den \div 2,
                 min_tracking_confidence |-> Den \div 2]
    /\ ctx = size
    /\ conns = setup_connections(FACEMESH(len))
    /\ face_mesh_np = Zeros(mf)
    /\ s_face_mesh = Zeros(mf)
    /\ detected = 0
    /\ results = <<>>
    /\ updater = [count_rate |-> rate, counter |-> 0]
    /\ circles = {}
    /\ lines = {}
    /\ idx = NoIdx
    /\ last = [op |-> "init", null |-> TRUE, detect |-> FALSE,
               processed |-> FALSE, repeat |-> FALSE]
    /\ lastFrame = None
    /\ wrote = [store |-> Zeros(mf), detected |-> 0]
    /\ callLog = <<>>

-----------------------------------------------------------------------------
(* detect *)

\* variant of NullFrameReturn: the None check is missing
NullFrameIgnored(frame) == FALSE

\* line 128: if frame is None: return
NullFrameReturn(frame) == frame = None

\* variant of NoFaceBranch: the shared state is not filled with zeros
NoFaceBranchKeepsStore ==
  /\ detected' = -1
  /\ UNCHANGED <<face_mesh_np, s_face_mesh>>
  /\ idx' = NoIdx

\* lines 130-133: no face found
NoFaceBranch ==
  /\ s_face_mesh' = Zeros(config.max_num_faces)
  /\ detected' = -1
  /\ UNCHANGED face_mesh_np
  /\ idx' = NoIdx

\* lines 137-138: the two points computed for one landmark
PxNormOf(lm) == << F32(Den - lm.x), F32(Den - lm.y), F32(Den - lm.z) >>

\* variant of PxOf: the pixel point is not mirrored
PxOfUnflipped(lm) == << F32(ctx.x * lm.x), F32(ctx.y * lm.y) >>

PxOf(lm) == << F32(ctx.x * (Den - lm.x)), F32(ctx.y * (Den - lm.y)) >>

\* lines 135-140: the cache after the loops over faces and landmarks
NpAfter(res) ==
  [pxnorm |-> [i \in DOMAIN face_mesh_np.pxnorm |->
                 [j \in DOMAIN face_mesh_np.pxnorm[i] |->
                    IF i < Len(res) /\ j < Len(res[i + 1])
                    THEN PxNormOf(res[i + 1][j + 1])
                    ELSE face_mesh_np.pxnorm[i][j]]],
   px     |-> [i \in DOMAIN face_mesh_np.px |->
                 [j \in DOMAIN face_mesh_np.px[i] |->
                    IF i < Len(res) /\ j < Len(res[i + 1])
                    THEN PxOf(res[i + 1][j + 1])
                    ELSE face_mesh_np.px[i][j]]]]

\* line 143
DetectedAfter(res) == Len(res)

\* variant of FacesBranch: the shared state is assigned before the loops
\* update the cache
FacesBranchStale(res) ==
  /\ face_mesh_np' = NpAfter(res)
  /\ s_face_mesh' = SetFromNddict(face_mesh_np)
  /\ detected' = DetectedAfter(res)
  /\ idx' = [face |-> 0..(Len(res) - 1),
             lm   |-> UNION {0..(Len(res[i]) - 1) : i \in 1..Len(res)},
             conn |-> {}]

\* lines 135-143: faces found
FacesBranch(res) ==
  /\ face_mesh_np' = NpAfter(res)
  /\ s_face_mesh' = SetFromNddict(face_mesh_np')
  /\ detected' = DetectedAfter(res)
  /\ idx' = [face |-> 0..(Len(res) - 1),
             lm   |-> UNION {0..(Len(res[i]) - 1) : i \in 1..Len(res)},
             conn |-> {}]

\* lines 116-143
detect(frame) ==
  IF NullFrameReturn(frame)
  THEN /\ UNCHANGED <<results, face_mesh_np, s_face_mesh, detected, lastFrame,
                      wrote>>
       /\ idx' = NoIdx
  ELSE LET res == Process(frame)
       IN /\ results' = <<res>>
          /\ lastFrame' = frame
          /\ IF Len(res) = 0 THEN NoFaceBranch ELSE FacesBranch(res)
          /\ wrote' = [store |-> s_face_mesh', detected |-> detected']

\* a direct call of the public method detect
Detect(frame) ==
  /\ detect(frame)
  /\ last' = [op |-> "detect", null |-> frame = None, detect |-> TRUE,
              processed |-> ~NullFrameReturn(frame),
              repeat |-> ~NullFrameReturn(frame) /\ frame = lastFrame]
  /\ circles' = {}
  /\ lines' = {}
  /\ UNCHANGED <<config, ctx, conns, updater, callLog>>

-----------------------------------------------------------------------------
(* __call__ *)

LastN(s, n) == IF Len(s) <= n THEN s ELSE SubSeq(s, Len(s) - n + 1, Len(s))

\* variant of CallRuns: __call__ calls self.detect(frame) itself
CallRunsDirect == TRUE

\* line 213: self.updater(frame); does this invocation execute detect
CallRuns == UpdaterFires(updater)

Call(frame) ==
  /\ updater' = UpdaterNext(updater)
  /\ IF CallRuns
     THEN detect(frame)
     ELSE /\ UNCHANGED <<results, face_mesh_np, s_face_mesh, detected,
                         lastFrame, wrote>>
          /\ idx' = NoIdx
  /\ last' = [op |-> "call", null |-> frame = None, detect |-> CallRuns,
              processed |-> CallRuns /\ ~NullFrameReturn(frame),
              repeat |-> CallRuns /\ ~NullFrameReturn(frame)
                         /\ frame = lastFrame]
  /\ callLog' = LastN(Append(callLog, CallRuns), updater.count_rate)
  /\ circles' = {}
  /\ lines' = {}
  /\ UNCHANGED <<config, ctx, conns>>

-----------------------------------------------------------------------------
(* draw *)

\* ti.ndrange(a, b)
NdRange(a, b) == (0..(a - 1)) \X (0..(b - 1))

\* variant of DrawnFaces: no guard, the loops visit every face slot
DrawnFacesAll == 0..(config.max_num_faces - 1)

\* lines 151, 163, 173: the faces the two loops of draw visit
DrawnFaces == IF detected > 0 THEN 0..(detected - 1) ELSE {}

\* lines 193-205
draw_lm(face, lm, r) ==
  LET px == s_face_mesh.px[face][lm]
  IN [face |-> face, lm |-> lm, cx |-> CastI32(px[1]), cy |-> CastI32(px[2]),
      r |-> r]

\* lines 156-164
draw_face_lms(r) ==
  {draw_lm(p[1], p[2], r) : p \in DrawnFaces \X (0..(n_points - 1))}

\* lines 173: the (face, conn) pairs draw_face_conns passes to draw_conn
ConnRange == DrawnFaces \X (0..(n_points - 1))

\* what a read of contours_conns past its end, and the read of the store
\* at the landmark index it yields, can produce: the zero connection, or an
\* out-of-range connection whose endpoints then read as zero or as garbage
OOBOutcomes ==
  {[c |-> [a |-> 0, b |-> 0], px |-> <<0, 0>>],
   [c |-> [a |-> n_points, b |-> n_points], px |-> <<0, 0>>],
   [c |-> [a |-> n_points, b |-> n_points], px |-> <<-Den, -Den>>]}

\* line 185: c = self.contours_conns[conn]
ReadConn(conn, oob) ==
  IF conn < n_conns THEN conns.contours_conns[conn + 1] ELSE oob.c

\* lines 186-187: self.ctx.s.face_mesh[face, lm].px
ReadPx(face, lm, oob) ==
  IF lm \in 0..(n_points - 1) THEN s_face_mesh.px[face][lm] ELSE oob.px

\* lines 177-190
draw_conn(face, conn, oob) ==
  LET c == ReadConn(conn, oob)
      a == ReadPx(face, c.a, oob)
      b == ReadPx(face, c.b, oob)
  IN [face |-> face, conn |-> conn,
      ax |-> CastI32(a[1]), ay |-> CastI32(a[2]),
      bx |-> CastI32(b[1]), by |-> CastI32(b[2])]

\* variant of DrawKeeps: draw resets the detected-count once it has drawn
DrawConsumesFlag ==
  /\ detected' = 0
  /\ UNCHANGED <<config, ctx, conns, face_mesh_np, s_face_mesh,
                 results, updater, lastFrame, wrote, callLog>>

\* lines 145-205: draw assigns no attribute of the object or of the context
DrawKeeps ==
  UNCHANGED <<config, ctx, conns, face_mesh_np, s_face_mesh, detected,
              results, updater, lastFrame, wrote, callLog>>

\* the contour-table indices of a draw that lie past the end of the table
OOBConns == {p[2] : p \in {q \in ConnRange : q[2] >= n_conns}}

\* lines 145-153; g is what the reads past the end of contours_conns yield
\* during this call, one outcome per out-of-range index
Draw ==
  \E g \in [OOBConns -> OOBOutcomes] :
    LET oob(p) == IF p[2] >= n_conns THEN g[p[2]]
                  ELSE [c |-> [a |-> 0, b |-> 0], px |-> <<0, 0>>]
    IN /\ circles' = draw_face_lms(5)
       /\ lines' = {draw_conn(p[1], p[2], oob(p)) : p \in ConnRange}
       /\ idx' = [face |-> DrawnFaces,
                  lm   |-> {p[2] : p \in DrawnFaces \X (0..(n_points - 1))}
                           \cup UNION {{ReadConn(p[2], oob(p)).a,
                                        ReadConn(p[2], oob(p)).b} :
                                       p \in ConnRange},
                  conn |-> {p[2] : p \in ConnRange}]
       /\ last' = [op |-> "draw", null |-> TRUE, detect |-> FALSE,
                   processed |-> FALSE, repeat |-> FALSE]
       /\ DrawKeeps

-----------------------------------------------------------------------------

FrameArgs == Frames \cup {None}

Next ==
  \/ \E frame \in FrameArgs : Detect(frame)
  \/ \E frame \in FrameArgs : Call(frame)
  \/ Draw

Spec == Init /\ [][Next]_vars

-----------------------------------------------------------------------------
(* Properties *)

FaceIdx == 0..(config.max_num_faces - 1)

LmIdx == 0..(n_points - 1)

\* the last operation was a detect pass that reached the detector
PassRan == last.processed /\ results # <<>>

\* number of faces the detector reported in that pass
K == Len(results[1])

\* C1: a detect pass on a non-null frame in which the detector reports no
\* face leaves the detected-count at -1 and every entry of the shared store
\* (pxnorm and px, every face slot, every landmark) at zero, whatever earlier
\* passes wrote.
C1_NoFaceZeroes ==
  (PassRan /\ K = 0) =>
    /\ detected = -1
    /\ \A i \in FaceIdx, j \in LmIdx :
         /\ s_face_mesh.pxnorm[i][j] = <<0, 0, 0>>
         /\ s_face_mesh.px[i][j] = <<0, 0>>

\* C1 witness: a no-face pass that follows a pass which had found faces
C1_Witness ==
  /\ PassRan
  /\ K = 0
  /\ detected = -1
  /\ face_mesh_np # Zeros(config.max_num_faces)

\* C2 (as claimed): after a pass that found K >= 1 faces the detected-count
\* is K, the entries of faces 0..K-1 hold the values of this pass, and the
\* entries of faces K..max_faces-1 hold no landmark data of an earlier pass.
C2_Claim ==
  (PassRan /\ K >= 1) =>
    /\ detected = K
    /\ \A i \in FaceIdx, j \in LmIdx :
         IF i < K
         THEN /\ s_face_mesh.pxnorm[i][j] = PxNormOf(results[1][i + 1][j + 1])
              /\ s_face_mesh.px[i][j] = PxOf(results[1][i + 1][j + 1])
         ELSE /\ s_face_mesh.pxnorm[i][j] = <<0, 0, 0>>
              /\ s_face_mesh.px[i][j] = <<0, 0>>

\* C3 (as claimed): a draw with detected-count K > 0 issues exactly
\* K*n_points circles, one per face and landmark, and exactly K*n_conns
\* lines, one per face and contour connection, each joining the pixel
\* coordinates of the connection's two endpoint landmarks.
C3_Claim ==
  (last.op = "draw" /\ detected > 0) =>
    /\ Cardinality(circles) = detected * n_points
    /\ {<<c.face, c.lm>> : c \in circles} = (0..(detected - 1)) \X LmIdx
    /\ Cardinality(lines) = detected * n_conns
    /\ \A f \in 0..(detected - 1), k \in 0..(n_conns - 1) :
         LET c == conns.contours_conns[k + 1]
             a == s_face_mesh.px[f][c.a]
             b == s_face_mesh.px[f][c.b]
         IN [face |-> f, conn |-> k,
             ax |-> CastI32(a[1]), ay |-> CastI32(a[2]),
             bx |-> CastI32(b[1]), by |-> CastI32(b[2])] \in lines

\* C4: a draw made while the detected-count is <= 0 (0 before any pass, -1
\* after a no-face pass) issues no circle and no line.
C4_NoDrawWhenNone ==
  (last.op = "draw" /\ detected <= 0) => (circles = {} /\ lines = {})

\* C4 witness: a draw after a no-face pass, the cache still holding a face
C4_Witness ==
  /\ last.op = "draw"
  /\ detected = -1
  /\ face_mesh_np # Zeros(config.max_num_faces)

\* C5 (as claimed): after a pass that found K >= 1 faces, the stored pixel
\* point and the stored normalized point of every (i, j), i < K, satisfy
\* px.x = frame_width*(1 - normalized_x), px.y = frame_height*(1 - normalized_y).
C5_Claim ==
  (PassRan /\ K >= 1) =>
    \A i \in 0..(K - 1) : \A j \in 0..(Len(results[1][i + 1]) - 1) :
      /\ s_face_mesh.px[i][j][1] = F32(ctx.x * (Den - s_face_mesh.pxnorm[i][j][1]))
      /\ s_face_mesh.px[i][j][2] = F32(ctx.y * (Den - s_face_mesh.pxnorm[i][j][2]))

\* C5 (amended): after such a pass, with lm the landmark the detector
\* returned for (i, j): the stored normalized point is 1 - lm and the stored
\* pixel point is (frame_width*(1 - lm.x), frame_height*(1 - lm.y)), each
\* rounded to float32; so wherever 1 - lm is a float32, the pixel point is
\* the size times the stored normalized coordinate itself.
C5_PixelFromLandmark ==
  (PassRan /\ K >= 1) =>
    \A i \in 0..(K - 1) : \A j \in 0..(Len(results[1][i + 1]) - 1) :
      LET lm == results[1][i + 1][j + 1]
          n  == s_face_mesh.pxnorm[i][j]
          p  == s_face_mesh.px[i][j]
      IN /\ n = << F32(Den - lm.x), F32(Den - lm.y), F32(Den - lm.z) >>
         /\ p[1] = F32(ctx.x * (Den - lm.x))
         /\ p[2] = F32(ctx.y * (Den - lm.y))
         /\ (n[1] = Den - lm.x) => p[1] = F32(ctx.x * n[1])
         /\ (n[2] = Den - lm.y) => p[2] = F32(ctx.y * n[2])

\* C5 witness: a pass that found a face one of whose landmarks is off the
\* mirror axis and another whose 1 - lm.x is rounded when stored
C5_Witness ==
  /\ PassRan
  /\ K >= 1
  /\ \E j \in LmIdx : results[1][1][j + 1].x # Den \div 2
  /\ \E j \in LmIdx :
       s_face_mesh.pxnorm[0][j][1] # Den - results[1][1][j + 1].x

\* C6: a detect pass on the frame of the previous pass (the detector being
\* deterministic) leaves the shared store and the detected-count as the
\* previous pass left them.
C6_Idempotent ==
  [][last'.repeat => (s_face_mesh' = s_face_mesh /\ detected' = detected)]_vars

\* C6 witness: a repeated pass on a frame with fewer faces than face slots,
\* the remaining slots holding data
C6_Witness ==
  /\ last.repeat
  /\ PassRan
  /\ K >= 1
  /\ K < config.max_num_faces
  /\ s_face_mesh.px[K] # Zeros(config.max_num_faces).px[K]

\* C7: among any count_rate consecutive __call__ invocations at most one
\* executes detect.
C7_AtMostOncePerWindow ==
  Cardinality({n \in 1..Len(callLog) : callLog[n]}) <= 1

\* C7 witness: a full window of a scheduler of rate >= 2 in which detect ran
C7_Witness ==
  /\ updater.count_rate >= 2
  /\ Len(callLog) = updater.count_rate
  /\ \E n \in 1..Len(callLog) : callLog[n]
  /\ last.op = "call"

\* C8: a detect call with the frame None does not invoke the detector and
\* leaves the shared store, the cache, the detected-count, the detector's
\* last results and the topology tables unchanged.
C8_NullFrameNoEffect ==
  [][(last'.detect /\ last'.null) =>
       /\ ~last'.processed
       /\ UNCHANGED <<s_face_mesh, face_mesh_np, detected, results, conns>>]_vars

\* C8 witness: detect ran on None while the store holds a detected face
C8_Witness ==
  /\ last.detect
  /\ last.null
  /\ detected > 0
  /\ s_face_mesh # Zeros(config.max_num_faces)

\* C9: a draw, and a __call__ the scheduler skips, leave the shared store,
\* the detected-count and the topology tables unchanged, and the store and
\* the detected-count are always what the last executed pass left (the
\* initial zero state if none ran).
C9_DetectOnlyWriter ==
  /\ [](s_face_mesh = wrote.store /\ detected = wrote.detected)
  /\ [][(last'.op = "draw" \/ (last'.op = "call" /\ ~last'.detect)) =>
          UNCHANGED <<s_face_mesh, detected, conns>>]_vars

\* C9 witness: a draw that drew a detected face
C9_Witness ==
  /\ last.op = "draw"
  /\ detected > 0
  /\ circles # {}
  /\ s_face_mesh # Zeros(config.max_num_faces)

\* C10 (as claimed): every index the last operation used is within its
\* structure: faces < max_faces (and detected-count <= max_faces),
\* landmarks < n_points, contour-table index < n_conns.
C10_Claim ==
  /\ detected <= config.max_num_faces
  /\ idx.face \subseteq FaceIdx
  /\ idx.lm \subseteq LmIdx
  /\ idx.conn \subseteq 0..(n_conns - 1)

====
